---- MODULE Spec2Model ----
(***************************************************************************)
(* OpenVPN client manager (service.py and its HTTP routes).                *)
(*                                                                         *)
(* The state is the part of the filesystem the service reads and writes:   *)
(* the block-list file, the Easy-RSA pki directory, the rendered profiles, *)
(* the two copies of the revocation list, and the status Easy-RSA keeps    *)
(* for every common name.  Every operation of service.py is one action:    *)
(* the service is synchronous and an operation runs to completion.         *)
(* Easy-RSA is an external program: whether a run of it exits 0 is an      *)
(* input of the action, drawn from the outcomes the tool can have.         *)
(***************************************************************************)
EXTENDS Integers, Sequences, FiniteSets, TLC

\* Longest block-list (in lines) the model lets suspend_client build.
MaxLines == 3

\* The line separator written by suspend_client / unsuspend_client.
LF == "\n"

\* Client names, as sequences of characters.
Names == {<<"a">>, <<"b", "a">>}

\* Content marker of a pki path that does not exist.
NoFile == "NoFile"

\* A text file: absent, or present with its characters.
Absent == [exists |-> FALSE, text |-> <<>>]
TextFile(t) == [exists |-> TRUE, text |-> t]

\* A revocation list file: absent, or present with the names it revokes.
NoCrl == [exists |-> FALSE, revoked |-> {}]
CrlFile(S) == [exists |-> TRUE, revoked |-> S]

\* A rendered profile: absent, or present with the credentials it embeds.
NoProfile == [exists |-> FALSE, cert |-> NoFile, key |-> NoFile]

\* Paths under EASYRSA_PATH / "pki": <<sub-directory, name, suffix>>.
PkiPaths == {"issued", "private", "reqs"} \X Names \X {"crt", "key", "req"}
IssuedCrt(name) == <<"issued", name, "crt">>
PrivateKey(name) == <<"private", name, "key">>
ReqFile(name) == <<"reqs", name, "req">>

VARIABLES
    blocklist,  \* BLOCKLIST_PATH
    status,     \* Easy-RSA's index: "none", "valid" or "revoked" per name
    pki,        \* content of every path under pki/issued, private, reqs
    profile,    \* OUTPUT_DIR / "<name>.ovpn" per name
    pkiCrl,     \* EASYRSA_PATH / "pki" / "crl.pem"
    serverCrl,  \* CRL_PATH, the list the VPN server reads
    pre,        \* the files as they were when the last call started
    last,       \* the last call: operation, name, error raised, and what
                \* Easy-RSA answered to its first run and to gen-crl
    ref,        \* reference ordered set of suspended names
    API_KEY,    \* the configured API key of the HTTP surface ("" when unset)
    http,       \* the last HTTP request: route, X-API-Key, name, status code
    pc,         \* position of each concurrent block-list call
    req,        \* operation and name of each concurrent block-list call
    buf,        \* the lines each concurrent block-list call has read
    rin,        \* the files generate_client reads to build a profile
    rout        \* the profile text generate_client builds from them

files == <<blocklist, status, pki, profile, pkiCrl, serverCrl>>
httpVars == <<API_KEY, http>>
raceVars == <<pc, req, buf>>
renderVars == <<rin, rout>>

vars ==
    <<blocklist, status, pki, profile, pkiCrl, serverCrl, pre, last, ref,
      API_KEY, http, pc, req, buf, rin, rout>>

\* The files as one value, the argument and result of every operation.
Cur ==
    [blocklist |-> blocklist, status |-> status, pki |-> pki,
     profile |-> profile, pkiCrl |-> pkiCrl, serverCrl |-> serverCrl]

Ok(st) == [st |-> st, err |-> "none"]
Raise(st, e) == [st |-> st, err |-> e]

-----------------------------------------------------------------------------
(* Text helpers: str.splitlines and "\n".join                               *)

RECURSIVE SplitFrom(_, _, _, _)
SplitFrom(t, i, cur, acc) ==
    IF i > Len(t)
    THEN IF cur = <<>> THEN acc ELSE Append(acc, cur)
    ELSE IF t[i] = LF
         THEN SplitFrom(t, i + 1, <<>>, Append(acc, cur))
         ELSE SplitFrom(t, i + 1, Append(cur, t[i]), acc)

SplitLines(t) == SplitFrom(t, 1, <<>>, <<>>)

RECURSIVE Join(_)
Join(lines) ==
    IF lines = <<>> THEN <<>>
    ELSE IF Len(lines) = 1 THEN lines[1]
    ELSE lines[1] \o <<LF>> \o Join(Tail(lines))

RECURSIVE Without(_, _)
Without(lines, name) ==
    IF lines = <<>> THEN <<>>
    ELSE IF lines[1] # name
         THEN <<lines[1]>> \o Without(Tail(lines), name)
         ELSE Without(Tail(lines), name)

RECURSIVE NonBlank(_)
NonBlank(lines) ==
    IF lines = <<>> THEN <<>>
    ELSE IF lines[1] # <<>>
         THEN <<lines[1]>> \o NonBlank(Tail(lines))
         ELSE NonBlank(Tail(lines))

InSeq(x, s) == \E i \in 1..Len(s) : s[i] = x
Count(x, s) == Cardinality({i \in 1..Len(s) : s[i] = x})

-----------------------------------------------------------------------------
(* Block-list operations                                                    *)

\* suspend_client: touch, read, log when present, write lines + [name].
suspend_client(bl, name) ==
    LET touched == IF bl.exists THEN bl ELSE TextFile(<<>>)
        lines == SplitLines(touched.text)
    IN  TextFile(Join(lines \o <<name>>) \o <<LF>>)

\* unsuspend_client without its guard on the file's existence.
UnsuspendNoExistsCheck(bl, name) ==
    LET lines == Without(SplitLines(bl.text), name)
    IN  TextFile(Join(lines) \o (IF lines # <<>> THEN <<LF>> ELSE <<>>))

\* unsuspend_client: return when the file is missing, else rewrite it
\* without the lines equal to name.
unsuspend_client(bl, name) ==
    IF ~bl.exists THEN bl
    ELSE LET lines == Without(SplitLines(bl.text), name)
         IN  TextFile(Join(lines) \o (IF lines # <<>> THEN <<LF>> ELSE <<>>))

\* list_blocked_clients: [] when the file is missing, else its non-blank lines.
list_blocked_clients(bl) ==
    IF bl.exists THEN NonBlank(SplitLines(bl.text)) ELSE <<>>

-----------------------------------------------------------------------------
(* Easy-RSA runs (_run_easy_rsa): a non-zero exit raises CalledProcessError  *)

\* build-client-full: issues certificate, key and request for name.
build_client_full(st, name, password, ok) ==
    IF ~ok THEN Raise(st, "CalledProcessError")
    ELSE Ok([st EXCEPT
            !.status[name] = "valid",
            !.pki = [p \in PkiPaths |->
                        IF p = IssuedCrt(name) THEN "cert"
                        ELSE IF p = PrivateKey(name)
                             THEN (IF password THEN "key_enc" ELSE "key_plain")
                        ELSE IF p = ReqFile(name) THEN "req"
                        ELSE st.pki[p]]])

\* revoke: marks name's certificate revoked in Easy-RSA's index.
easyrsa_revoke(st, name, ok) ==
    IF ~ok THEN Raise(st, "CalledProcessError")
    ELSE Ok([st EXCEPT !.status[name] = "revoked"])

\* gen-crl: "fail" is a non-zero exit; "ok" leaves pki/crl.pem listing the
\* revoked names; "nofile" is an exit 0 that leaves no pki/crl.pem.
easyrsa_gen_crl(st, out) ==
    IF out = "fail" THEN Raise(st, "CalledProcessError")
    ELSE IF out = "ok"
         THEN Ok([st EXCEPT !.pkiCrl =
                    CrlFile({n \in Names : st.status[n] = "revoked"})])
    ELSE Ok([st EXCEPT !.pkiCrl = NoCrl])

-----------------------------------------------------------------------------
(* Orchestrator operations                                                  *)

\* _refresh_crl that returns quietly when pki/crl.pem is missing.
RefreshCrlSilent(st) ==
    IF ~st.pkiCrl.exists THEN Ok(st)
    ELSE Ok([st EXCEPT !.serverCrl = st.pkiCrl])

\* _refresh_crl: RuntimeError when pki/crl.pem is missing, else copy it.
_refresh_crl(st) ==
    IF ~st.pkiCrl.exists THEN Raise(st, "RuntimeError")
    ELSE Ok([st EXCEPT !.serverCrl = st.pkiCrl])

\* The unlink loop of revoke_client: <sub>/<name>.crt for the three
\* sub-directories, then the profile; a missing file is not an error.
remove_artefacts(st, name) ==
    [st EXCEPT
        !.pki = [p \in PkiPaths |->
                    IF p \in {<<sub, name, "crt">> :
                                sub \in {"issued", "private", "reqs"}}
                    THEN NoFile ELSE st.pki[p]],
        !.profile[name] = NoProfile]

\* generate_client writing the profile whatever Easy-RSA answered.
GenerateWritesAlways(st, name, password, ok) ==
    LET b == build_client_full(st, name, password, ok)
    IN  [st |-> [b.st EXCEPT !.profile[name] =
                    [exists |-> TRUE,
                     cert |-> b.st.pki[IssuedCrt(name)],
                     key |-> b.st.pki[PrivateKey(name)]]],
         err |-> b.err]

\* generate_client: issue, then write the profile embedding the issued
\* certificate and key (template, CA and TLS key are present).
generate_client(st, name, password, ok) ==
    LET b == build_client_full(st, name, password, ok)
    IN  IF b.err # "none" THEN b
        ELSE Ok([b.st EXCEPT !.profile[name] =
                    [exists |-> TRUE,
                     cert |-> b.st.pki[IssuedCrt(name)],
                     key |-> b.st.pki[PrivateKey(name)]]])

\* revoke_client cleaning up before it asks Easy-RSA.
RevokeCleanupFirst(st, name, revOk, crlOut) ==
    LET s0 == remove_artefacts(st, name)
        s1 == [s0 EXCEPT !.blocklist = unsuspend_client(s0.blocklist, name)]
        r1 == easyrsa_revoke(s1, name, revOk)
    IN  IF r1.err # "none" THEN r1
        ELSE LET r2 == easyrsa_gen_crl(r1.st, crlOut)
             IN  IF r2.err # "none" THEN r2 ELSE _refresh_crl(r2.st)

\* revoke_client without its final unsuspend_client call.
RevokeNoUnsuspend(st, name, revOk, crlOut) ==
    LET r1 == easyrsa_revoke(st, name, revOk)
    IN  IF r1.err # "none" THEN r1
        ELSE LET r2 == easyrsa_gen_crl(r1.st, crlOut)
             IN  IF r2.err # "none" THEN r2
                 ELSE LET r3 == _refresh_crl(r2.st)
                      IN  IF r3.err # "none" THEN r3
                          ELSE Ok(remove_artefacts(r3.st, name))

\* revoke_client: revoke, gen-crl, _refresh_crl, each raising out of the
\* call; then the unlink loop and unsuspend_client.
revoke_client(st, name, revOk, crlOut) ==
    LET r1 == easyrsa_revoke(st, name, revOk)
    IN  IF r1.err # "none" THEN r1
        ELSE LET r2 == easyrsa_gen_crl(r1.st, crlOut)
             IN  IF r2.err # "none" THEN r2
                 ELSE LET r3 == _refresh_crl(r2.st)
                      IN  IF r3.err # "none" THEN r3
                          ELSE LET s4 == remove_artefacts(r3.st, name)
                               IN  Ok([s4 EXCEPT !.blocklist =
                                        unsuspend_client(s4.blocklist, name)])

-----------------------------------------------------------------------------
(* The state machine                                                        *)

Call(op, name, err, first, crl) ==
    [op |-> op, name |-> name, err |-> err, first |-> first, crl |-> crl]

Exit(ok) == IF ok THEN "ok" ELSE "fail"

\* The filesystem of a fresh installation, before the first call.
FilesInit ==
    /\ blocklist \in {Absent, TextFile(<<>>)}
    /\ status = [n \in Names |-> "none"]
    /\ pki = [p \in PkiPaths |-> NoFile]
    /\ profile = [n \in Names |-> NoProfile]
    /\ pkiCrl = NoCrl
    /\ serverCrl = NoCrl
    /\ pre = [blocklist |-> blocklist, status |-> status, pki |-> pki,
              profile |-> profile, pkiCrl |-> pkiCrl, serverCrl |-> serverCrl]
    /\ last = Call("none", <<>>, "none", "notrun", "notrun")
    /\ ref = <<>>

\* No HTTP request, no concurrent call and no rendering under way.
NoRequest == [route |-> "none", key |-> "", name |-> <<>>, code |-> 0]
HttpIdle == API_KEY = "" /\ http = NoRequest
RaceIdle == pc = <<>> /\ req = <<>> /\ buf = <<>>
RenderIdle == rin = <<>> /\ rout = <<>>

Init == FilesInit /\ HttpIdle /\ RaceIdle /\ RenderIdle

\* The files after a call are the files of its result.
Commit(st) ==
    /\ blocklist' = st.blocklist
    /\ status' = st.status
    /\ pki' = st.pki
    /\ profile' = st.profile
    /\ pkiCrl' = st.pkiCrl
    /\ serverCrl' = st.serverCrl

\* gen <name> [--pass] / POST /clients.  Easy-RSA refuses a name whose
\* certificate is valid; any run of it may fail.
Generate ==
    \E name \in Names, password \in BOOLEAN, ok \in BOOLEAN :
        /\ ok => status[name] # "valid"
        /\ LET r == generate_client(Cur, name, password, ok)
           IN  /\ Commit(r.st)
               /\ last' = Call("generate", name, r.err, Exit(ok), "notrun")
        /\ pre' = Cur
        /\ ref' = ref
        /\ UNCHANGED <<httpVars, raceVars, renderVars>>

\* revoke <name> / DELETE /clients/<name>.  Easy-RSA revokes only a valid
\* certificate; gen-crl runs only after a successful revoke.
Revoke ==
    \E name \in Names, revOk \in BOOLEAN, crlOut \in {"fail", "ok", "nofile"} :
        /\ revOk => status[name] = "valid"
        /\ ~revOk => crlOut = "fail"
        /\ LET r == revoke_client(Cur, name, revOk, crlOut)
           IN  /\ Commit(r.st)
               /\ last' = Call("revoke", name, r.err, Exit(revOk),
                               IF revOk THEN crlOut ELSE "notrun")
               /\ ref' = IF r.err = "none" THEN Without(ref, name) ELSE ref
        /\ pre' = Cur
        /\ UNCHANGED <<httpVars, raceVars, renderVars>>

\* suspend <name> / POST /clients/<name>/suspend.
Suspend ==
    \E name \in Names :
        /\ Len(SplitLines(blocklist.text)) < MaxLines
        /\ Commit([Cur EXCEPT !.blocklist = suspend_client(blocklist, name)])
        /\ last' = Call("suspend", name, "none", "notrun", "notrun")
        /\ pre' = Cur
        /\ ref' = IF InSeq(name, ref) THEN ref ELSE Append(ref, name)
        /\ UNCHANGED <<httpVars, raceVars, renderVars>>

\* unsuspend <name> / POST /clients/<name>/unsuspend.
Unsuspend ==
    \E name \in Names :
        /\ Commit([Cur EXCEPT !.blocklist = unsuspend_client(blocklist, name)])
        /\ last' = Call("unsuspend", name, "none", "notrun", "notrun")
        /\ pre' = Cur
        /\ ref' = Without(ref, name)
        /\ UNCHANGED <<httpVars, raceVars, renderVars>>

\* blocked / GET /clients/blocked: reads the block-list, writes nothing.
ListBlocked ==
    /\ Commit(Cur)
    /\ last' = Call("blocked", <<>>, "none", "notrun", "notrun")
    /\ pre' = Cur
    /\ ref' = ref
    /\ UNCHANGED <<httpVars, raceVars, renderVars>>

Next == Generate \/ Revoke \/ Suspend \/ Unsuspend \/ ListBlocked

Spec == Init /\ [][Next]_vars

-----------------------------------------------------------------------------
(* Properties                                                               *)

\* ListSuspended as the delivery surface returns it.
Listed == list_blocked_clients(blocklist)
ListedBefore == list_blocked_clients(pre.blocklist)

RevokeFailed == last.op = "revoke" /\ last.err = "CalledProcessError"
RevokeDone == last.op = "revoke" /\ last.err = "none"

\* C1: SuspendClient(x) on a block-list that already holds x leaves the
\* block-list unchanged, and x is in it exactly once afterwards.
C1_SuspendIdempotent ==
    (last.op = "suspend" /\ Count(last.name, ListedBefore) = 1)
        => /\ blocklist = pre.blocklist
           /\ Count(last.name, Listed) = 1

\* C2: after any sequence of suspend/unsuspend calls from an empty or absent
\* block-list, ListSuspended is the reference ordered set: no name twice,
\* names in the order of their first-time adds.
C2_ListIsOrderedSet == Listed = ref

\* C3: when Easy-RSA's revoke or gen-crl fails, RevokeClient ends in an error
\* and the block-list, the pki files, the profiles and the server's
\* revocation list are as they were before the call.
C3_FailedRevokeTouchesNoFile ==
    (last.op = "revoke" /\ (last.first = "fail" \/ last.crl = "fail"))
        => /\ last.err = "CalledProcessError"
           /\ blocklist = pre.blocklist
           /\ pki = pre.pki
           /\ profile = pre.profile
           /\ serverCrl = pre.serverCrl

\* C3 witness: gen-crl failed after a successful revoke of a suspended client
\* whose certificate, key and profile exist.
C3_Witness ==
    /\ last.op = "revoke" /\ last.first = "ok" /\ last.crl = "fail"
    /\ InSeq(last.name, Listed)
    /\ pki[IssuedCrt(last.name)] # NoFile
    /\ pki[PrivateKey(last.name)] # NoFile
    /\ profile[last.name].exists

\* C4: when pki/crl.pem is missing after a gen-crl that exited 0, RevokeClient
\* ends in an error, deletes no artefact or profile and leaves the block-list.
C4_MissingCrlIsHardError ==
    (last.op = "revoke" /\ last.crl \in {"ok", "nofile"} /\ ~pkiCrl.exists)
        => /\ last.err = "RuntimeError"
           /\ pki = pre.pki
           /\ profile = pre.profile
           /\ blocklist = pre.blocklist

\* C4 witness: such a call on a suspended client with certificate and profile.
C4_Witness ==
    /\ last.op = "revoke" /\ last.crl \in {"ok", "nofile"} /\ ~pkiCrl.exists
    /\ InSeq(last.name, ListedBefore)
    /\ pre.pki[IssuedCrt(last.name)] # NoFile
    /\ pre.profile[last.name].exists

\* C5: a RevokeClient that fails with a revocation error leaves the whole
\* state, Easy-RSA's status of the certificate included, as before the call.
C5_FailedRevokeAppliesNothing == RevokeFailed => Cur = pre

\* C6: after a successful RevokeClient(name) the issued certificate, the
\* private key and the profile of name no longer exist.
C6_RevokeDeletesArtefacts ==
    RevokeDone
        => /\ pki[IssuedCrt(last.name)] = NoFile
           /\ pki[PrivateKey(last.name)] = NoFile
           /\ ~profile[last.name].exists

\* C7: after a successful RevokeClient(name), name is not in the block-list
\* and every other name is in it exactly when it was before.
C7_RevokeClearsSuspension ==
    RevokeDone
        => /\ ~InSeq(last.name, Listed)
           /\ \A m \in Names \ {last.name} :
                 InSeq(m, Listed) <=> InSeq(m, ListedBefore)

\* C7 witness: a successful revoke of a suspended client while another
\* client is suspended too.
C7_Witness ==
    /\ RevokeDone
    /\ InSeq(last.name, ListedBefore)
    /\ \E m \in Names \ {last.name} : InSeq(m, ListedBefore)

\* C8: a name is in the block-list only while it has an issued, unrevoked
\* certificate.
C8_SuspendedOnlyWhileValid ==
    \A n \in Names : InSeq(n, Listed) => status[n] = "valid"

\* C9: when issuance fails, CreateClient ends in an error and writes or
\* overwrites no profile.
C9_FailedIssuanceWritesNoProfile ==
    (last.op = "generate" /\ last.first = "fail")
        => /\ last.err = "CalledProcessError"
           /\ profile = pre.profile

\* C9 witness: issuance failed for a name that already has a profile.
C9_Witness ==
    /\ last.op = "generate" /\ last.first = "fail"
    /\ pre.profile[last.name].exists

\* C10: UnsuspendClient(x) with x not in the block-list leaves ListSuspended
\* as it was and does not create a missing block-list file.
C10_UnsuspendAbsentIsNoOp ==
    (last.op = "unsuspend" /\ ~InSeq(last.name, ListedBefore))
        => /\ Listed = ListedBefore
           /\ blocklist.exists = pre.blocklist.exists

\* C10 witness: unsuspend of an absent name while the file does not exist.
C10_Witness ==
    /\ last.op = "unsuspend"
    /\ ~InSeq(last.name, ListedBefore)
    /\ ~pre.blocklist.exists

-----------------------------------------------------------------------------
(* The HTTP delivery surface (api/routers/clients.py, api/dependencies.py;   *)
(* api.py holds the same routes and the same get_api_key)                    *)

\* Longest block-list (in lines) POST /clients/<name>/suspend may build.
MaxHttpLines == 1

\* A request without an X-API-Key header.
NoHeader == "NoHeader"

\* What a request can send as X-API-Key, and what can be configured.
Headers == {NoHeader, "k1", "k2"}
Configured == {"", "k1"}

Pass == [ok |-> TRUE, code |-> 200]
Deny(code) == [ok |-> FALSE, code |-> code]

\* get_api_key without its comparison of the header with API_KEY.
GetApiKeyNoCompare(configured, header) ==
    IF header = NoHeader THEN Deny(403) ELSE Pass

\* get_api_key: APIKeyHeader refuses a request without the header; an empty
\* API_KEY skips authentication; otherwise the header must equal API_KEY.
get_api_key(configured, header) ==
    IF header = NoHeader THEN Deny(403)
    ELSE IF configured = "" THEN Pass
    ELSE IF header # configured THEN Deny(401)
    ELSE Pass

Response(r, code) == [st |-> r.st, err |-> r.err, code |-> code]

\* POST /clients answering 200 whatever generate_client raised.
ApiCreateAlwaysOk(st, name, password, ok) ==
    Response(generate_client(st, name, password, ok), 200)

\* POST /clients: any exception of generate_client becomes a 500.
api_create_client(st, name, password, ok) ==
    LET r == generate_client(st, name, password, ok)
    IN  Response(r, IF r.err = "none" THEN 200 ELSE 500)

\* GET /clients/<name>/config: 404 when the profile file does not exist.
api_download_client_config(st, name) ==
    Response(Ok(st), IF ~st.profile[name].exists THEN 404 ELSE 200)

\* DELETE /clients/<name>: any exception of revoke_client becomes a 500.
api_revoke_client(st, name, revOk, crlOut) ==
    LET r == revoke_client(st, name, revOk, crlOut)
    IN  Response(r, IF r.err = "none" THEN 200 ELSE 500)

\* POST /clients/<name>/suspend.
api_suspend_client(st, name) ==
    Response(Ok([st EXCEPT !.blocklist = suspend_client(st.blocklist, name)]),
             200)

\* POST /clients/<name>/unsuspend.
api_unsuspend_client(st, name) ==
    Response(Ok([st EXCEPT !.blocklist = unsuspend_client(st.blocklist, name)]),
             200)

Request(route, header, name, code) ==
    [route |-> route, key |-> header, name |-> name, code |-> code]

\* The dependency raised: the route's function is not called.
Refused(route, header, name) ==
    /\ Commit(Cur)
    /\ pre' = Cur
    /\ last' = Call("none", name, "none", "notrun", "notrun")
    /\ ref' = ref
    /\ http' = Request(route, header, name,
                       get_api_key(API_KEY, header).code)

HttpCreate ==
    \E header \in Headers, name \in Names, password \in BOOLEAN,
       ok \in BOOLEAN :
        /\ ok => status[name] # "valid"
        /\ IF ~get_api_key(API_KEY, header).ok
           THEN Refused("create", header, name)
           ELSE LET r == api_create_client(Cur, name, password, ok)
                IN  /\ Commit(r.st)
                    /\ pre' = Cur
                    /\ last' = Call("generate", name, r.err, Exit(ok),
                                    "notrun")
                    /\ ref' = ref
                    /\ http' = Request("create", header, name, r.code)
        /\ UNCHANGED <<API_KEY, raceVars, renderVars>>

HttpDownload ==
    \E header \in Headers, name \in Names :
        /\ IF ~get_api_key(API_KEY, header).ok
           THEN Refused("download", header, name)
           ELSE LET r == api_download_client_config(Cur, name)
                IN  /\ Commit(r.st)
                    /\ pre' = Cur
                    /\ last' = Call("download", name, "none", "notrun",
                                    "notrun")
                    /\ ref' = ref
                    /\ http' = Request("download", header, name, r.code)
        /\ UNCHANGED <<API_KEY, raceVars, renderVars>>

HttpRevoke ==
    \E header \in Headers, name \in Names, revOk \in BOOLEAN,
       crlOut \in {"fail", "ok", "nofile"} :
        /\ revOk => status[name] = "valid"
        /\ ~revOk => crlOut = "fail"
        /\ IF ~get_api_key(API_KEY, header).ok
           THEN Refused("revoke", header, name)
           ELSE LET r == api_revoke_client(Cur, name, revOk, crlOut)
                IN  /\ Commit(r.st)
                    /\ pre' = Cur
                    /\ last' = Call("revoke", name, r.err, Exit(revOk),
                                    IF revOk THEN crlOut ELSE "notrun")
                    /\ ref' = IF r.err = "none" THEN Without(ref, name)
                              ELSE ref
                    /\ http' = Request("revoke", header, name, r.code)
        /\ UNCHANGED <<API_KEY, raceVars, renderVars>>

HttpSuspend ==
    \E header \in Headers, name \in Names :
        /\ IF ~get_api_key(API_KEY, header).ok
           THEN Refused("suspend", header, name)
           ELSE LET r == api_suspend_client(Cur, name)
                IN  /\ Len(SplitLines(blocklist.text)) < MaxHttpLines
                    /\ Commit(r.st)
                    /\ pre' = Cur
                    /\ last' = Call("suspend", name, "none", "notrun",
                                    "notrun")
                    /\ ref' = IF InSeq(name, ref) THEN ref
                              ELSE Append(ref, name)
                    /\ http' = Request("suspend", header, name, r.code)
        /\ UNCHANGED <<API_KEY, raceVars, renderVars>>

HttpUnsuspend ==
    \E header \in Headers, name \in Names :
        /\ IF ~get_api_key(API_KEY, header).ok
           THEN Refused("unsuspend", header, name)
           ELSE LET r == api_unsuspend_client(Cur, name)
                IN  /\ Commit(r.st)
                    /\ pre' = Cur
                    /\ last' = Call("unsuspend", name, "none", "notrun",
                                    "notrun")
                    /\ ref' = Without(ref, name)
                    /\ http' = Request("unsuspend", header, name, r.code)
        /\ UNCHANGED <<API_KEY, raceVars, renderVars>>

HttpListBlocked ==
    \E header \in Headers :
        /\ IF ~get_api_key(API_KEY, header).ok
           THEN Refused("blocked", header, <<>>)
           ELSE /\ Commit(Cur)
                /\ pre' = Cur
                /\ last' = Call("blocked", <<>>, "none", "notrun", "notrun")
                /\ ref' = ref
                /\ http' = Request("blocked", header, <<>>, 200)
        /\ UNCHANGED <<API_KEY, raceVars, renderVars>>

InitHttp ==
    /\ FilesInit
    /\ API_KEY \in Configured
    /\ http = NoRequest
    /\ RaceIdle
    /\ RenderIdle

NextHttp ==
    \/ HttpCreate \/ HttpDownload \/ HttpRevoke
    \/ HttpSuspend \/ HttpUnsuspend \/ HttpListBlocked

SpecHttp == InitHttp /\ [][NextHttp]_vars

Mutating == {"generate", "revoke", "suspend", "unsuspend"}
MutatingRoutes == {"create", "revoke", "suspend", "unsuspend"}

\* C11: no mutating orchestrator operation is invoked for a request whose
\* X-API-Key does not match the configured API key, in every configuration.
C11_MutationOnlyWithMatchingKey ==
    last.op \in Mutating => http.key = API_KEY

\* C11, amended: when an API key is configured (API_KEY is not empty), a
\* request to a mutating route whose X-API-Key differs from it is refused
\* and the orchestrator is not invoked: no file changes.
C11_KeyEnforcedWhenConfigured ==
    (API_KEY # "" /\ http.route \in MutatingRoutes /\ http.key # API_KEY)
        => /\ last.op = "none"
           /\ http.code \in {401, 403}
           /\ Cur = pre

\* C11 witness: a wrong key sent to a mutating route of a service with a
\* configured key, when there is a client the request could have changed.
C11_Witness ==
    /\ API_KEY # ""
    /\ http.route \in MutatingRoutes
    /\ http.key \notin {API_KEY, NoHeader}
    /\ http.code = 401
    /\ status[http.name] = "valid"

DuplicateCreate ==
    http.route = "create" /\ last.op = "generate"
        /\ pre.status[http.name] = "valid"

BackendFailure ==
    last.op \in {"generate", "revoke"} /\ last.err # "none"

MissingDownload ==
    http.route = "download" /\ last.op = "download"
        /\ ~profile[http.name].exists

\* C12: each outcome has its own failure code: not-found for the download of
\* a missing profile, conflict for creating an already issued name, internal
\* error for the other backend failures.
C12_EachOutcomeOwnCode ==
    /\ MissingDownload => http.code = 404
    /\ DuplicateCreate => http.code = 409
    /\ (BackendFailure /\ ~DuplicateCreate) => http.code = 500

\* C12, amended: the download of a missing profile yields not-found; every
\* failure of the backend yields internal error, the creation of an already
\* issued name included (there is no conflict code).
C12_MissingIs404FailureIs500 ==
    /\ MissingDownload => http.code = 404
    /\ DuplicateCreate => http.code = 500
    /\ BackendFailure => http.code = 500
    /\ http.code # 409

\* C12 witness: the creation of an already issued name was answered.
C12_Witness == DuplicateCreate /\ http.code = 500

-----------------------------------------------------------------------------
(* Concurrent suspend / unsuspend calls: the route functions are plain def,  *)
(* so two requests run in two threads; each statement of suspend_client and  *)
(* unsuspend_client that touches BLOCKLIST_PATH is one step                  *)

\* The two concurrent calls.
Procs == {1, 2}

\* A block-list as unsuspend_client leaves it.
NormalFile(lines) ==
    TextFile(Join(lines) \o (IF lines # <<>> THEN <<LF>> ELSE <<>>))

\* Block-lists without duplicates, as sequential calls can leave them.
StartLists ==
    {<<>>} \cup {<<n>> : n \in Names}
           \cup {<<nm[1], nm[2]>> :
                    nm \in {x \in Names \X Names : x[1] # x[2]}}

\* BLOCKLIST_PATH.touch(exist_ok=True)
touch(bl) == IF bl.exists THEN bl ELSE TextFile(<<>>)

\* BLOCKLIST_PATH.read_text().splitlines()
read_lines(bl) == SplitLines(bl.text)

\* The write of suspend_client appending to what the file holds by now.
SuspendWriteAppends(bl, lines, name) ==
    TextFile(Join(SplitLines(bl.text) \o <<name>>) \o <<LF>>)

\* The write of suspend_client: the file bl is replaced by the lines read
\* earlier plus name.
suspend_write(bl, lines, name) ==
    TextFile(Join(lines \o <<name>>) \o <<LF>>)

\* The write of unsuspend_client: the file bl is replaced by the lines read
\* earlier that differ from name.
unsuspend_write(bl, lines, name) ==
    NormalFile(Without(lines, name))

At(p, where, op) == pc[p] = where /\ req[p].op = op

Step(p, where, bl, lines) ==
    /\ pc' = [pc EXCEPT ![p] = where]
    /\ blocklist' = bl
    /\ buf' = [buf EXCEPT ![p] = lines]
    /\ UNCHANGED <<status, pki, profile, pkiCrl, serverCrl, pre, last, ref,
                   req, httpVars, renderVars>>

SuspendTouch ==
    \E p \in Procs :
        /\ At(p, "start", "suspend")
        /\ Step(p, "touched", touch(blocklist), buf[p])

SuspendRead ==
    \E p \in Procs :
        /\ At(p, "touched", "suspend")
        /\ Step(p, "read", blocklist, read_lines(blocklist))

SuspendWrite ==
    \E p \in Procs :
        /\ At(p, "read", "suspend")
        /\ Step(p, "done", suspend_write(blocklist, buf[p], req[p].name),
                buf[p])

UnsuspendCheck ==
    \E p \in Procs :
        /\ At(p, "start", "unsuspend")
        /\ Step(p, IF blocklist.exists THEN "checked" ELSE "done",
                blocklist, buf[p])

UnsuspendRead ==
    \E p \in Procs :
        /\ At(p, "checked", "unsuspend")
        /\ Step(p, "read", blocklist, read_lines(blocklist))

UnsuspendWrite ==
    \E p \in Procs :
        /\ At(p, "read", "unsuspend")
        /\ Step(p, "done", unsuspend_write(blocklist, buf[p], req[p].name),
                buf[p])

\* Two calls on two different names, started on a block-list file that
\* earlier calls left.
InitRace ==
    /\ blocklist \in {Absent} \cup {NormalFile(l) : l \in StartLists}
    /\ status = [n \in Names |-> "none"]
    /\ pki = [p \in PkiPaths |-> NoFile]
    /\ profile = [n \in Names |-> NoProfile]
    /\ pkiCrl = NoCrl
    /\ serverCrl = NoCrl
    /\ pre = [blocklist |-> blocklist, status |-> status, pki |-> pki,
              profile |-> profile, pkiCrl |-> pkiCrl, serverCrl |-> serverCrl]
    /\ last = Call("none", <<>>, "none", "notrun", "notrun")
    /\ ref = <<>>
    /\ req \in {r \in [Procs -> [op : {"suspend", "unsuspend"}, name : Names]] :
                  r[1].name # r[2].name}
    /\ pc = [p \in Procs |-> "start"]
    /\ buf = [p \in Procs |-> <<>>]
    /\ HttpIdle
    /\ RenderIdle

NextRace ==
    \/ SuspendTouch \/ SuspendRead \/ SuspendWrite
    \/ UnsuspendCheck \/ UnsuspendRead \/ UnsuspendWrite

SpecRace == InitRace /\ [][NextRace]_vars

\* The call of p changes the block-list it started on.
Effective(p) ==
    IF req[p].op = "suspend" THEN ~InSeq(req[p].name, ListedBefore)
    ELSE InSeq(req[p].name, ListedBefore)

\* The update of p is in the block-list.
Applied(p) ==
    IF req[p].op = "suspend" THEN InSeq(req[p].name, Listed)
    ELSE ~InSeq(req[p].name, Listed)

\* p read the contents the file had before both calls.
ReadOld(p) == buf[p] = SplitLines(pre.blocklist.text)

BothReturned == \A p \in Procs : pc[p] = "done"

\* C13: the read-modify-write is not atomic: when two calls on different
\* names both read the old contents and both write back, then after both
\* have returned one of the two updates is missing from the block-list.
C13_StaleReadsLoseOneUpdate ==
    (BothReturned /\ \A p \in Procs : Effective(p) /\ ReadOld(p))
        => Cardinality({p \in Procs : Applied(p)}) = 1

\* C13 witness: the interleaving exists: both calls returned, both read the
\* old contents, and the update of one is missing.
C13_Witness ==
    /\ BothReturned
    /\ \A p \in Procs : Effective(p) /\ ReadOld(p)
    /\ \E p \in Procs : ~Applied(p)

-----------------------------------------------------------------------------
(* The profile text of generate_client: template, four embedded files,      *)
(* and the key-direction line                                                *)

\* Longest run of whitespace after the template's last line.
MaxTrail == 2

\* Longest run of newlines before and after the body of an embedded file.
MaxPad == 1

Whitespace == {" ", LF}

\* The file name of TLS_KEY: tc.key as installed with tls-crypt, ta.key on a
\* server set up with tls-auth.
TcKey == <<"t", "c", ".", "k", "e", "y">>
TaKey == <<"t", "a", ".", "k", "e", "y">>

TlsCrypt == <<"t", "l", "s", "-", "c", "r", "y", "p", "t">>
TlsAuth == <<"t", "l", "s", "-", "a", "u", "t", "h">>

\* The text of the extra line of legacy mode.
KeyDirection ==
    <<"k", "e", "y", "-", "d", "i", "r",
      "e", "c", "t", "i", "o", "n", " ", "1">>

\* str.rstrip(), str.lstrip() and str.strip() without argument.
RECURSIVE rstrip(_)
rstrip(t) ==
    IF t = <<>> THEN <<>>
    ELSE IF t[Len(t)] \in Whitespace THEN rstrip(SubSeq(t, 1, Len(t) - 1))
    ELSE t

RECURSIVE lstrip(_)
lstrip(t) ==
    IF t = <<>> THEN <<>>
    ELSE IF t[1] \in Whitespace THEN lstrip(Tail(t))
    ELSE t

strip(t) == lstrip(rstrip(t))

\* str.startswith
startswith(t, prefix) ==
    Len(t) >= Len(prefix) /\ SubSeq(t, 1, Len(prefix)) = prefix

\* TLS_TAG = "tls-crypt" if TLS_KEY.name.startswith("tc") else "tls-auth"
TLS_TAG(keyName) ==
    IF startswith(keyName, <<"t", "c">>) THEN TlsCrypt ELSE TlsAuth

\* The key-direction line written whatever the tag.
AddKeyDirectionAlways(tag) == TRUE

\* ADD_KEY_DIRECTION = TLS_TAG == "tls-auth"
ADD_KEY_DIRECTION(tag) == tag = TlsAuth

\* embed(tag, path): f"<{tag}>\n{path.read_text().strip()}\n</{tag}>\n"
embed(tag, content) ==
    <<"<">> \o tag \o <<">", LF>> \o strip(content) \o <<LF>>
        \o <<"<", "/">> \o tag \o <<">", LF>>

\* cfg as generate_client assembles it before out.write_text(cfg).
cfg(template, ca, cert, key, tls, keyName) ==
    (rstrip(template) \o <<LF>>)
        \o embed(<<"c", "a">>, ca)
        \o embed(<<"c", "e", "r", "t">>, cert)
        \o embed(<<"k", "e", "y">>, key)
        \o embed(TLS_TAG(keyName), tls)
        \o (IF ADD_KEY_DIRECTION(TLS_TAG(keyName))
            THEN KeyDirection \o <<LF>>
            ELSE <<>>)

\* Inputs: a template made of a head that ends in no whitespace and a
\* trail of whitespace; files holding one letter between runs of newlines.
Heads == {<<>>, <<"T">>, <<"T", " ", "t", LF, "U">>}
Trails == UNION {[1..k -> Whitespace] : k \in 0..MaxTrail}
Newlines(k) == [i \in 1..k |-> LF]
Padded(letter, pad) == Newlines(pad[1]) \o <<letter>> \o Newlines(pad[2])
Pads == (0..MaxPad) \X (0..MaxPad)

InitRender ==
    /\ rin \in {[head |-> h, template |-> h \o t,
                 ca |-> Padded("A", p), cert |-> Padded("C", p),
                 key |-> Padded("K", q), tls |-> Padded("S", q),
                 keyName |-> k] :
                   h \in Heads, t \in Trails, p \in Pads, q \in Pads,
                   k \in {TcKey, TaKey}}
    /\ rout = [done |-> FALSE, text |-> <<>>]
    /\ FilesInit
    /\ HttpIdle
    /\ RaceIdle

\* generate_client, lines 129 to 144, after a successful issuance.
Render ==
    /\ ~rout.done
    /\ rout' = [done |-> TRUE,
                text |-> cfg(rin.template, rin.ca, rin.cert, rin.key,
                             rin.tls, rin.keyName)]
    /\ UNCHANGED <<files, pre, last, ref, rin, httpVars, raceVars>>

NextRender == Render

SpecRender == InitRender /\ [][NextRender]_vars

Opening(tag) == <<"<">> \o tag \o <<">">>
Closing(tag) == <<"<", "/">> \o tag \o <<">">>
Block(tag, letter) == <<Opening(tag), <<letter>>, Closing(tag)>>

Legacy == rin.keyName = TaKey

\* C14: the profile is the template (trailing whitespace stripped, one
\* trailing newline) followed by exactly four tagged blocks in the order ca,
\* cert, key, trust secret; the trust block's tag is tls-auth in legacy mode
\* and tls-crypt in wrapped-trust mode; the line "key-direction 1" follows
\* the trust block in legacy mode and is never written in wrapped-trust mode.
C14_ProfileLayout ==
    rout.done
        => /\ rout.text # <<>> /\ rout.text[Len(rout.text)] = LF
           /\ SplitLines(rout.text) =
                SplitLines(rin.head \o <<LF>>)
                    \o Block(<<"c", "a">>, "A")
                    \o Block(<<"c", "e", "r", "t">>, "C")
                    \o Block(<<"k", "e", "y">>, "K")
                    \o Block(IF Legacy THEN TlsAuth ELSE TlsCrypt, "S")
                    \o (IF Legacy THEN <<KeyDirection>> ELSE <<>>)

\* C14 witness: a legacy-mode profile built from a template with trailing
\* whitespace and from files with newlines around their bodies.
C14_Witness ==
    /\ rout.done
    /\ Legacy
    /\ rin.template # rin.head
    /\ rin.cert # <<"C">>
    /\ rin.tls # <<"S">>

====
